---- MODULE Spec2Model ----
(***************************************************************************)
(* CivicSync (src/src/app.js): the App component's state, its auth, feed   *)
(* and profile effects, and its submit / delete / upvote handlers, over a  *)
(* Firestore store (issue records, profile aggregates) and Firebase Auth.  *)
(* Every await of the source is a point where other events interleave: a   *)
(* handler is one action up to its first await and one action per          *)
(* resolution (Ok) or rejection (Fail) of each awaited remote call.        *)
(***************************************************************************)
EXTENDS Integers, Sequences, FiniteSets, TLC

\* ------------------------------------------------------------------ bounds
MaxIssues == 2      \* submits started over a run
MaxUpvotes == 2     \* upvotes a record may collect
MaxLen == 3         \* records in a snapshot handed to the listener (SpecSort)
MaxKey == 1         \* largest upvotes / createdAt value in such a snapshot
MaxInFlight == 1    \* deletes of one session awaiting their remote calls
ReloadIssues == 3   \* submits started over a run of SpecReload
UpvoteIssues == 1   \* submits started over a run of SpecUpvote
MaxDebt == 1        \* how far below 0 deletes may take reportedIssues

\* ------------------------------------------------------- program constants
FirstReportAt == 1
HeroAt == 5
ReportPoints == 10

Sessions == {"s1", "s2"}        \* browser tabs / devices running App
CredUids == {"u1"}              \* identities with an e-mail account
AnonUids == {"u2"}              \* anonymous (guest) identities
Uids == CredUids \cup AnonUids
None == "null"                  \* JavaScript null

FirstReport == "First Report"
Hero == "Neighborhood Hero"
MsgSubmit == "Failed to submit issue."
MsgDelete == "Failed to delete the report. Please refresh and try again."
MsgGuest == "Guest authentication failed."
MsgAuth == "auth/error"         \* err.message of a rejected sign-in
MsgFeed == "Failed to load civic issues."
MsgForm == "All fields are required."

VARIABLES
    authUser,       \* [Sessions -> Uids \cup {None}]: auth.currentUser of the tab
    storeIssues,    \* issue collection: [ids of existing docs -> record]
    storeProfiles,  \* profile collection: [uids with a doc -> record]
    nextId,         \* next document id the store hands out
    clock,          \* submission time (new Date()) of the next submit
    user, isLoading, issues, isSubmitting, error, showForm,
    userProfile,    \* React state of App, per session
    formError,      \* ReportIssueModal's formError, per session
    subscribed,     \* whether the onSnapshot listener of the effect is attached
    authReady,      \* whether onAuthStateChanged has made its first callback
    authOp, fetchOp, submitOp, deleteOps, upvoteOp,  \* in-flight async handlers
    upvoteAcks      \* history: resolved upvote calls per record id

vars == <<authUser, storeIssues, storeProfiles, nextId, clock, user, isLoading,
          issues, isSubmitting, error, showForm, userProfile, formError, subscribed, authReady, authOp, fetchOp, submitOp,
          deleteOps, upvoteOp, upvoteAcks>>

remoteVars == <<authUser, storeIssues, storeProfiles, nextId, upvoteAcks>>

Idle == [pc |-> "idle"]
ZeroProfile == [points |-> 0, badges |-> <<>>, reportedIssues |-> 0]

\* ----------------------------------------------------------------- helpers
Range(seq) == {seq[i] : i \in 1..Len(seq)}

\* x.f || 0 for a numeric field that may be missing
OrZero(rec, f) == IF f \in DOMAIN rec THEN rec[f] ELSE 0

\* prevIssues.filter(issue => issue.id !== issueId)
RECURSIVE FilterOut(_, _)
FilterOut(seq, id) ==
    IF seq = <<>> THEN <<>>
    ELSE IF Head(seq).id = id THEN FilterOut(Tail(seq), id)
         ELSE <<Head(seq)>> \o FilterOut(Tail(seq), id)

\* the comparator of issuesData.sort: negative when a goes before b
Compare(a, b) ==
    LET upvoteDiff == OrZero(b, "upvotes") - OrZero(a, "upvotes")
    IN  IF upvoteDiff # 0 THEN upvoteDiff
        ELSE OrZero(b, "createdAt") - OrZero(a, "createdAt")

\* (mutant) an unstable insertion: x goes before the elements it ties with
RECURSIVE InsertBeforeTies(_, _)
InsertBeforeTies(sorted, x) ==
    IF sorted = <<>> THEN <<x>>
    ELSE IF Compare(x, Head(sorted)) <= 0 THEN <<x>> \o sorted
         ELSE <<Head(sorted)>> \o InsertBeforeTies(Tail(sorted), x)

\* Array.prototype.sort is stable: x goes after every element it does not
\* strictly precede
RECURSIVE InsertSorted(_, _)
InsertSorted(sorted, x) ==
    IF sorted = <<>> THEN <<x>>
    ELSE IF Compare(x, Head(sorted)) < 0 THEN <<x>> \o sorted
         ELSE <<Head(sorted)>> \o InsertSorted(Tail(sorted), x)

RECURSIVE SortIssues(_)
SortIssues(docs) ==
    IF docs = <<>> THEN <<>>
    ELSE InsertSorted(SortIssues(SubSeq(docs, 1, Len(docs) - 1)), docs[Len(docs)])

\* snapshot.docs.map(doc => ({ id: doc.id, ...doc.data() })), in document-id order
RECURSIVE DocsFrom(_, _)
DocsFrom(store, ids) ==
    IF ids = {} THEN <<>>
    ELSE LET m == CHOOSE i \in ids : \A j \in ids : i <= j
         IN  <<store[m]>> \o DocsFrom(store, ids \ {m})

StoreDocs == DocsFrom(storeIssues, DOMAIN storeIssues)

Put(f, s, v) == [f EXCEPT ![s] = v]

\* ------------------------------------------------------------------- Init
Init ==
    /\ authUser = [s \in Sessions |-> None]
    /\ storeIssues = <<>>
    /\ storeProfiles = <<>>
    /\ nextId = 1
    /\ clock = 1
    /\ user = [s \in Sessions |-> None]
    /\ isLoading = [s \in Sessions |-> TRUE]
    /\ issues = [s \in Sessions |-> <<>>]
    /\ isSubmitting = [s \in Sessions |-> FALSE]
    /\ error = [s \in Sessions |-> None]
    /\ showForm = [s \in Sessions |-> FALSE]
    /\ userProfile = [s \in Sessions |-> ZeroProfile]
    /\ formError = [s \in Sessions |-> ""]
    /\ subscribed = [s \in Sessions |-> FALSE]
    /\ authReady = [s \in Sessions |-> FALSE]
    /\ authOp = [s \in Sessions |-> Idle]
    /\ fetchOp = [s \in Sessions |-> Idle]
    /\ submitOp = [s \in Sessions |-> Idle]
    /\ deleteOps = [s \in Sessions |-> {}]
    /\ upvoteOp = [s \in Sessions |-> Idle]
    /\ upvoteAcks = <<>>

\* What App renders: the login screen, or the signed-in page
LoginScreenShown(s) == ~isLoading[s] /\ user[s] = None
MainShown(s) == ~isLoading[s] /\ user[s] # None

\* ------------------------------------------------------- Session Manager
\* onAuthStateChanged's first callback: setUser(currentUser); setIsLoading(false)
AuthReady(s) ==
    /\ ~authReady[s]
    /\ authReady' = Put(authReady, s, TRUE)
    /\ user' = Put(user, s, authUser[s])
    /\ isLoading' = Put(isLoading, s, FALSE)
    /\ UNCHANGED <<remoteVars, clock, issues, isSubmitting, error, showForm,
                   userProfile, formError, subscribed,
                   authOp, fetchOp, submitOp, deleteOps, upvoteOp>>

\* handleLogin / handleSignup up to the await. LoginScreen.handleSubmit calls
\* one or the other by authView, which the user toggles freely on that
\* screen: kind is that choice.
HandleLogin(s, kind) ==
    /\ LoginScreenShown(s)
    /\ authOp[s].pc = "idle"
    /\ fetchOp[s].pc = "idle"
    /\ isLoading' = Put(isLoading, s, TRUE)
    /\ error' = Put(error, s, None)
    /\ authOp' = Put(authOp, s,
           [pc |-> "signIn", kind |-> kind,
            call |-> IF kind = "login" THEN "signInWithEmailAndPassword"
                     ELSE "createUserWithEmailAndPassword"])
    /\ UNCHANGED <<remoteVars, clock, user, issues, isSubmitting, showForm,
                   userProfile, formError, subscribed, authReady,
                   fetchOp, submitOp, deleteOps, upvoteOp>>

\* handleGuestLogin up to the await; hasToken is
\* typeof __initial_auth_token !== 'undefined', a global of the hosting page
HandleGuestLogin(s, hasToken) ==
    /\ LoginScreenShown(s)
    /\ authOp[s].pc = "idle"
    /\ fetchOp[s].pc = "idle"
    /\ isLoading' = Put(isLoading, s, TRUE)
    /\ authOp' = Put(authOp, s,
           [pc |-> "signIn", kind |-> "guest",
            call |-> IF hasToken THEN "signInWithCustomToken"
                     ELSE "signInAnonymously"])
    /\ UNCHANGED <<remoteVars, clock, user, issues, isSubmitting, error, showForm,
                   userProfile, formError, subscribed, authReady,
                   fetchOp, submitOp, deleteOps, upvoteOp>>

\* a sign-in whose identity arrives while the effect on [user] attaches no
\* snapshot listener
SignInOkNoFeed(s, u) ==
    /\ authOp[s].pc = "signIn"
    /\ u \in CASE authOp[s].call = "signInAnonymously" -> AnonUids
              [] authOp[s].call = "signInWithCustomToken" -> Uids
              [] OTHER -> CredUids
    /\ authUser' = Put(authUser, s, u)
    /\ user' = Put(user, s, u)
    /\ isLoading' = Put(isLoading, s, FALSE)
    /\ fetchOp' = Put(fetchOp, s, [pc |-> "getDoc", uid |-> u])
    /\ authOp' = Put(authOp, s, Idle)
    /\ UNCHANGED <<storeIssues, storeProfiles, nextId, upvoteAcks, clock, issues,
                   isSubmitting, error, showForm, userProfile, formError,
                   subscribed, authReady, submitOp, deleteOps, upvoteOp>>

\* The sign-in call resolves: the auth listener runs setUser(u), the effect on
\* [user] starts fetchUserProfile and attaches the snapshot listener, and the
\* handler's finally (or the listener) clears isLoading.
SignInOk(s, u) ==
    /\ authOp[s].pc = "signIn"
    /\ u \in CASE authOp[s].call = "signInAnonymously" -> AnonUids
              [] authOp[s].call = "signInWithCustomToken" -> Uids
              [] OTHER -> CredUids
    /\ authUser' = Put(authUser, s, u)
    /\ user' = Put(user, s, u)
    /\ isLoading' = Put(isLoading, s, FALSE)
    /\ fetchOp' = Put(fetchOp, s, [pc |-> "getDoc", uid |-> u])
    /\ subscribed' = Put(subscribed, s, TRUE)
    /\ authOp' = Put(authOp, s, Idle)
    /\ UNCHANGED <<storeIssues, storeProfiles, nextId, upvoteAcks, clock, issues,
                   isSubmitting, error, showForm, userProfile, formError, authReady, submitOp, deleteOps, upvoteOp>>

\* a rejection that is only logged: the login screen comes back with no message
SignInFailSilent(s) ==
    /\ authOp[s].pc = "signIn"
    /\ isLoading' = Put(isLoading, s, FALSE)
    /\ authOp' = Put(authOp, s, Idle)
    /\ UNCHANGED <<remoteVars, clock, user, issues, isSubmitting, error, showForm,
                   userProfile, formError, subscribed, authReady,
                   fetchOp, submitOp, deleteOps, upvoteOp>>

\* The sign-in call rejects: the catch sets the error, isLoading is cleared
SignInFail(s) ==
    /\ authOp[s].pc = "signIn"
    /\ error' = Put(error, s, IF authOp[s].kind = "guest" THEN MsgGuest ELSE MsgAuth)
    /\ isLoading' = Put(isLoading, s, FALSE)
    /\ authOp' = Put(authOp, s, Idle)
    /\ UNCHANGED <<remoteVars, clock, user, issues, isSubmitting, showForm,
                   userProfile, formError, subscribed, authReady,
                   fetchOp, submitOp, deleteOps, upvoteOp>>

\* handleLogout up to await signOut(auth)
HandleLogout(s) ==
    /\ MainShown(s)
    /\ authOp[s].pc = "idle"
    /\ authOp' = Put(authOp, s, [pc |-> "signOut"])
    /\ UNCHANGED <<remoteVars, clock, user, isLoading, issues, isSubmitting, error,
                   showForm, userProfile, formError, subscribed,
                   authReady, fetchOp, submitOp, deleteOps, upvoteOp>>

\* signOut resolves: the listener runs setUser(null) (the effect's cleanup
\* detaches the snapshot listener), then the rest of handleLogout runs.
SignOutOk(s) ==
    /\ authOp[s].pc = "signOut"
    /\ authUser' = Put(authUser, s, None)
    /\ user' = Put(user, s, None)
    /\ isLoading' = Put(isLoading, s, FALSE)
    /\ subscribed' = Put(subscribed, s, FALSE)
    /\ issues' = Put(issues, s, <<>>)
    /\ userProfile' = Put(userProfile, s, ZeroProfile)
    /\ formError' = Put(formError, s, "")
    /\ authOp' = Put(authOp, s, Idle)
    /\ UNCHANGED <<storeIssues, storeProfiles, nextId, upvoteAcks, clock,
                   isSubmitting, error, showForm, authReady, fetchOp,
                   submitOp, deleteOps, upvoteOp>>

\* signOut rejects: handleLogout has no try, so nothing after the await runs
SignOutFail(s) ==
    /\ authOp[s].pc = "signOut"
    /\ authOp' = Put(authOp, s, Idle)
    /\ UNCHANGED <<remoteVars, clock, user, isLoading, issues, isSubmitting, error,
                   showForm, userProfile, formError, subscribed,
                   authReady, fetchOp, submitOp, deleteOps, upvoteOp>>

\* The auth collaborator reports "no user" without handleLogout having asked
\* (the session was ended elsewhere): the listener runs setUser(null) and
\* setIsLoading(false), and the cleanup of the effect on [user] detaches the
\* snapshot listener. Nothing else is set.
AuthRevoked(s) ==
    /\ authReady[s]
    /\ authUser[s] # None
    /\ authOp[s].pc # "signIn"
    /\ authUser' = Put(authUser, s, None)
    /\ user' = Put(user, s, None)
    /\ isLoading' = Put(isLoading, s, FALSE)
    /\ subscribed' = Put(subscribed, s, FALSE)
    /\ UNCHANGED <<storeIssues, storeProfiles, nextId, upvoteAcks, clock, issues,
                   isSubmitting, error, showForm, userProfile, formError,
                   authReady, authOp, fetchOp, submitOp, deleteOps, upvoteOp>>

\* --------------------------------------------------------- Profile Ledger
\* { points: 0, badges: [], reportedIssues: 0, name: user.email || 'Guest User' }
InitialProfile(u) ==
    [points |-> 0, badges |-> <<>>, reportedIssues |-> 0,
     name |-> IF u \in CredUids THEN u ELSE "Guest User"]

\* getDoc resolves: an existing document becomes the local profile; otherwise
\* fetchUserProfile goes on to await setDoc(profileRef, initialProfile)
FetchGetOk(s) ==
    /\ fetchOp[s].pc = "getDoc"
    /\ IF fetchOp[s].uid \in DOMAIN storeProfiles
       THEN /\ userProfile' = Put(userProfile, s, storeProfiles[fetchOp[s].uid])
            /\ fetchOp' = Put(fetchOp, s, Idle)
       ELSE /\ fetchOp' = Put(fetchOp, s, [fetchOp[s] EXCEPT !.pc = "setDoc"])
            /\ UNCHANGED userProfile
    /\ UNCHANGED <<remoteVars, clock, user, isLoading, issues, isSubmitting, error,
                   showForm, formError, subscribed, authReady,
                   authOp, submitOp, deleteOps, upvoteOp>>

\* a first load that hands out the zero-state without having stored it
FetchSetOkLocalOnly(s) ==
    /\ fetchOp[s].pc = "setDoc"
    /\ userProfile' = Put(userProfile, s, InitialProfile(fetchOp[s].uid))
    /\ fetchOp' = Put(fetchOp, s, Idle)
    /\ UNCHANGED <<remoteVars, clock, user, isLoading, issues, isSubmitting, error,
                   showForm, formError, subscribed, authReady, authOp, submitOp,
                   deleteOps, upvoteOp>>

\* setDoc(profileRef, initialProfile) resolves: the document is written whole
FetchSetOk(s) ==
    /\ fetchOp[s].pc = "setDoc"
    /\ storeProfiles' = [u \in DOMAIN storeProfiles \cup {fetchOp[s].uid} |->
                            IF u = fetchOp[s].uid THEN InitialProfile(u)
                            ELSE storeProfiles[u]]
    /\ userProfile' = Put(userProfile, s, InitialProfile(fetchOp[s].uid))
    /\ fetchOp' = Put(fetchOp, s, Idle)
    /\ UNCHANGED <<authUser, storeIssues, nextId, upvoteAcks, clock, user, isLoading,
                   issues, isSubmitting, error, showForm, formError,
                   subscribed, authReady, authOp, submitOp, deleteOps,
                   upvoteOp>>

\* getDoc or setDoc of fetchUserProfile rejects: nothing catches it
FetchFail(s) ==
    /\ fetchOp[s].pc \in {"getDoc", "setDoc"}
    /\ fetchOp' = Put(fetchOp, s, Idle)
    /\ UNCHANGED <<remoteVars, clock, user, isLoading, issues, isSubmitting, error,
                   showForm, userProfile, formError, subscribed,
                   authReady, authOp, submitOp, deleteOps, upvoteOp>>

\* newBadges of addIssue, from the userProfile the handler closed over
NewBadges(profile) ==
    LET newReportCount == OrZero(profile, "reportedIssues") + 1
        old == IF "badges" \in DOMAIN profile THEN profile.badges ELSE <<>>
        b1 == IF newReportCount >= FirstReportAt /\ FirstReport \notin Range(old)
              THEN Append(old, FirstReport) ELSE old
    IN  IF newReportCount >= HeroAt /\ Hero \notin Range(b1)
        THEN Append(b1, Hero) ELSE b1

\* setDoc(ref, {points: increment(10), reportedIssues: increment(1), badges}, {merge: true})
MergeReport(doc, badges) ==
    [f \in DOMAIN doc \cup {"points", "reportedIssues", "badges"} |->
        CASE f = "points" -> OrZero(doc, "points") + ReportPoints
          [] f = "reportedIssues" -> OrZero(doc, "reportedIssues") + 1
          [] f = "badges" -> badges
          [] OTHER -> doc[f]]

\* updateDoc(ref, {points: increment(-10), reportedIssues: increment(-1)})
DecrementReport(doc) ==
    [f \in DOMAIN doc \cup {"points", "reportedIssues"} |->
        CASE f = "points" -> OrZero(doc, "points") - ReportPoints
          [] f = "reportedIssues" -> OrZero(doc, "reportedIssues") - 1
          [] OTHER -> doc[f]]

\* a listener that merges: records with a delete pending in this session are
\* kept out of the view it publishes
ApplySnapshotKeepsDeletes(s, docs) ==
    issues' = Put(issues, s,
                  SortIssues(SelectSeq(docs,
                      LAMBDA d : \A op \in deleteOps[s] : op.id # d.id)))

\* ------------------------------------------------- Issue Feed Synchronizer
\* the onSnapshot callback: map, sort, setIssues
ApplySnapshot(s, docs) ==
    /\ issues' = Put(issues, s, SortIssues(docs))

\* the store notifies the listener with the collection's current documents
OnSnapshot(s) ==
    /\ subscribed[s]
    /\ ApplySnapshot(s, StoreDocs)
    /\ UNCHANGED <<remoteVars, clock, user, isLoading, isSubmitting, error, showForm,
                   userProfile, formError, subscribed, authReady,
                   authOp, fetchOp, submitOp, deleteOps, upvoteOp>>

\* the listener's error callback: console.error, setError; the store sends a
\* failed listener no further snapshots
SnapshotFail(s) ==
    /\ subscribed[s]
    /\ error' = Put(error, s, MsgFeed)
    /\ subscribed' = Put(subscribed, s, FALSE)
    /\ UNCHANGED <<remoteVars, clock, user, isLoading, issues, isSubmitting, showForm,
                   userProfile, formError, authReady, authOp, fetchOp, submitOp,
                   deleteOps, upvoteOp>>

\* "Report New Civic Issue": setShowForm(true); the modal's onClose
OpenForm(s) ==
    /\ MainShown(s)
    /\ ~showForm[s]
    /\ showForm' = Put(showForm, s, TRUE)
    /\ UNCHANGED <<remoteVars, clock, user, isLoading, issues, isSubmitting, error,
                   userProfile, formError, subscribed, authReady,
                   authOp, fetchOp, submitOp, deleteOps, upvoteOp>>

CloseForm(s) ==
    /\ MainShown(s)
    /\ showForm[s]
    /\ showForm' = Put(showForm, s, FALSE)
    /\ formError' = Put(formError, s, "")
    /\ UNCHANGED <<remoteVars, clock, user, isLoading, issues, isSubmitting, error,
                   userProfile, subscribed, authReady, authOp,
                   fetchOp, submitOp, deleteOps, upvoteOp>>

\* String.prototype.trim on a string given as a sequence of characters
RECURSIVE TrimStart(_)
TrimStart(str) ==
    IF str # <<>> /\ Head(str) = " " THEN TrimStart(Tail(str)) ELSE str

RECURSIVE TrimEnd(_)
TrimEnd(str) ==
    IF str # <<>> /\ str[Len(str)] = " " THEN TrimEnd(SubSeq(str, 1, Len(str) - 1))
    ELSE str

Trim(str) == TrimEnd(TrimStart(str))

\* the check without the trim: only a field of length 0 is refused
FormInvalidNoTrim(title, description, location) ==
    title = <<>> \/ description = <<>> \/ location = <<>>

\* !title.trim() || !description.trim() || !location.trim()
FormInvalid(title, description, location) ==
    Trim(title) = <<>> \/ Trim(description) = <<>> \/ Trim(location) = <<>>

FieldTexts == {<<>>, <<" ", " ">>, <<" ", "a", " ">>}
FilledTexts == {<<" ", "a", " ">>}

\* ReportIssueModal.handleSubmit, and addIssue up to await addDoc. The record
\* written keeps the fields the program reads back (upvotes, createdAt,
\* reporterId); title, description, location and the media URL are only drawn.
HandleSubmit(s, title, description, location) ==
    /\ MainShown(s)
    /\ showForm[s]
    /\ ~isSubmitting[s]
    /\ IF FormInvalid(title, description, location)
       THEN /\ formError' = Put(formError, s, MsgForm)
            /\ UNCHANGED <<clock, isSubmitting, error, submitOp>>
       ELSE /\ isSubmitting' = Put(isSubmitting, s, TRUE)
            /\ error' = Put(error, s, None)
            /\ submitOp' = Put(submitOp, s,
                   [pc |-> "addDoc", uid |-> user[s], profile |-> userProfile[s],
                    createdAt |-> clock])
            /\ clock' = clock + 1
            /\ UNCHANGED formError
    /\ UNCHANGED <<remoteVars, user, isLoading, issues, showForm, userProfile,
                   subscribed, authReady, authOp, fetchOp,
                   deleteOps, upvoteOp>>

\* addDoc resolves: the record exists with status 'Acknowledged', upvotes 0
AddDocOk(s) ==
    /\ submitOp[s].pc = "addDoc"
    /\ storeIssues' = [i \in DOMAIN storeIssues \cup {nextId} |->
                          IF i = nextId
                          THEN [id |-> nextId, upvotes |-> 0,
                                createdAt |-> submitOp[s].createdAt,
                                reporterId |-> submitOp[s].uid]
                          ELSE storeIssues[i]]
    /\ upvoteAcks' = [i \in DOMAIN upvoteAcks \cup {nextId} |->
                          IF i = nextId THEN 0 ELSE upvoteAcks[i]]
    /\ nextId' = nextId + 1
    /\ submitOp' = Put(submitOp, s, [submitOp[s] EXCEPT !.pc = "setDoc"])
    /\ UNCHANGED <<authUser, storeProfiles, clock, user, isLoading, issues,
                   isSubmitting, error, showForm, userProfile, formError, subscribed, authReady, authOp, fetchOp,
                   deleteOps, upvoteOp>>

\* a catch with no finally: the failure is reported, the busy flag stays up
SubmitFailedKeepsBusy(s) ==
    /\ error' = Put(error, s, MsgSubmit)
    /\ isSubmitting' = isSubmitting
    /\ submitOp' = Put(submitOp, s, Idle)

\* the catch and finally of addIssue
SubmitFailed(s) ==
    /\ error' = Put(error, s, MsgSubmit)
    /\ isSubmitting' = Put(isSubmitting, s, FALSE)
    /\ submitOp' = Put(submitOp, s, Idle)

AddDocFail(s) ==
    /\ submitOp[s].pc = "addDoc"
    /\ SubmitFailed(s)
    /\ UNCHANGED <<remoteVars, clock, user, isLoading, issues, showForm,
                   userProfile, formError, subscribed, authReady,
                   authOp, fetchOp, deleteOps, upvoteOp>>

\* the profile setDoc resolves: setShowForm(false), finally
SetDocOk(s) ==
    /\ submitOp[s].pc = "setDoc"
    /\ LET u == submitOp[s].uid
           doc == IF u \in DOMAIN storeProfiles THEN storeProfiles[u] ELSE <<>>
       IN  storeProfiles' = [v \in DOMAIN storeProfiles \cup {u} |->
                                IF v = u
                                THEN MergeReport(doc, NewBadges(submitOp[s].profile))
                                ELSE storeProfiles[v]]
    /\ showForm' = Put(showForm, s, FALSE)
    /\ formError' = Put(formError, s, "")
    /\ isSubmitting' = Put(isSubmitting, s, FALSE)
    /\ submitOp' = Put(submitOp, s, Idle)
    /\ UNCHANGED <<authUser, storeIssues, nextId, upvoteAcks, clock, user, isLoading,
                   issues, error, userProfile, subscribed, authReady,
                   authOp, fetchOp, deleteOps, upvoteOp>>

\* a failure of the profile update that takes the written record back
SetDocFailRollsBack(s) ==
    /\ submitOp[s].pc = "setDoc"
    /\ SubmitFailed(s)
    /\ storeIssues' = [id \in {i \in DOMAIN storeIssues :
                                  storeIssues[i].createdAt # submitOp[s].createdAt} |->
                          storeIssues[id]]
    /\ UNCHANGED <<authUser, storeProfiles, nextId, upvoteAcks, clock, user,
                   isLoading, issues, showForm, userProfile, formError,
                   subscribed, authReady, authOp, fetchOp, deleteOps,
                   upvoteOp>>

SetDocFail(s) ==
    /\ submitOp[s].pc = "setDoc"
    /\ SubmitFailed(s)
    /\ UNCHANGED <<remoteVars, clock, user, isLoading, issues, showForm,
                   userProfile, formError, subscribed, authReady,
                   authOp, fetchOp, deleteOps, upvoteOp>>

\* deletes of any session awaiting a remote call
AllDeleteOps == UNION {deleteOps[s] : s \in Sessions}

\* a catch that reports the failure and leaves the view as the delete made it
DeleteFailedKeepsView(s, op) ==
    /\ error' = Put(error, s, MsgDelete)
    /\ issues' = issues
    /\ deleteOps' = Put(deleteOps, s, deleteOps[s] \ {op})

\* the catch of handleDelete: setError, setIssues(originalIssues)
DeleteFailed(s, op) ==
    /\ error' = Put(error, s, MsgDelete)
    /\ issues' = Put(issues, s, op.originalIssues)
    /\ deleteOps' = Put(deleteOps, s, deleteOps[s] \ {op})

\* every call of handleDelete is an invocation of its own, with its own
\* closure: n tells apart two calls that captured the same values
FreeSlot(ops) == CHOOSE n \in 1..(Cardinality(ops) + 1) :
                    /\ \A op \in ops : op.n # n
                    /\ \A m \in 1..(n - 1) : \E op \in ops : op.n = m

\* handleDelete up to await deleteDoc: the card's delete button is shown to
\* the reporter only (isOwner); the record leaves the view at once
HandleDelete(s, id) ==
    /\ MainShown(s)
    /\ \E i \in 1..Len(issues[s]) :
          issues[s][i].id = id /\ issues[s][i].reporterId = user[s]
    /\ Cardinality(deleteOps[s]) < MaxInFlight
    /\ user[s] \in DOMAIN storeProfiles =>
          OrZero(storeProfiles[user[s]], "reportedIssues")
              - Cardinality(AllDeleteOps) > 0 - MaxDebt
    /\ issues' = Put(issues, s, FilterOut(issues[s], id))
    /\ deleteOps' = Put(deleteOps, s, deleteOps[s] \cup
           {[pc |-> "deleteDoc", id |-> id, uid |-> user[s],
             originalIssues |-> issues[s], n |-> FreeSlot(deleteOps[s])]})
    /\ UNCHANGED <<remoteVars, clock, user, isLoading, isSubmitting, error, showForm,
                   userProfile, formError, subscribed, authReady,
                   authOp, fetchOp, submitOp, upvoteOp>>

\* deleteDoc resolves (deleting a missing document resolves too)
DeleteDocOk(s, op) ==
    /\ op \in deleteOps[s]
    /\ op.pc = "deleteDoc"
    /\ storeIssues' = [i \in DOMAIN storeIssues \ {op.id} |-> storeIssues[i]]
    /\ upvoteAcks' = [i \in DOMAIN upvoteAcks \ {op.id} |-> upvoteAcks[i]]
    /\ deleteOps' = Put(deleteOps, s,
           (deleteOps[s] \ {op}) \cup {[op EXCEPT !.pc = "updateDoc"]})
    /\ UNCHANGED <<authUser, storeProfiles, nextId, clock, user, isLoading, issues,
                   isSubmitting, error, showForm, userProfile, formError, subscribed, authReady, authOp, fetchOp,
                   submitOp, upvoteOp>>

DeleteDocFail(s, op) ==
    /\ op \in deleteOps[s]
    /\ op.pc = "deleteDoc"
    /\ DeleteFailed(s, op)
    /\ UNCHANGED <<remoteVars, clock, user, isLoading, isSubmitting, showForm,
                   userProfile, formError, subscribed, authReady,
                   authOp, fetchOp, submitOp, upvoteOp>>

\* the profile updateDoc resolves (it needs the document to exist)
UpdateProfileOk(s, op) ==
    /\ op \in deleteOps[s]
    /\ op.pc = "updateDoc"
    /\ op.uid \in DOMAIN storeProfiles
    /\ storeProfiles' = [storeProfiles EXCEPT
                            ![op.uid] = DecrementReport(storeProfiles[op.uid])]
    /\ deleteOps' = Put(deleteOps, s, deleteOps[s] \ {op})
    /\ UNCHANGED <<authUser, storeIssues, nextId, upvoteAcks, clock, user, isLoading,
                   issues, isSubmitting, error, showForm, userProfile, formError, subscribed, authReady, authOp, fetchOp,
                   submitOp, upvoteOp>>

UpdateProfileFail(s, op) ==
    /\ op \in deleteOps[s]
    /\ op.pc = "updateDoc"
    /\ DeleteFailed(s, op)
    /\ UNCHANGED <<remoteVars, clock, user, isLoading, isSubmitting, showForm,
                   userProfile, formError, subscribed, authReady,
                   authOp, fetchOp, submitOp, upvoteOp>>

\* upvote calls awaiting the store, for record id
UpvotesInFlight(id) ==
    Cardinality({s \in Sessions : upvoteOp[s].pc = "updateDoc" /\ upvoteOp[s].id = id})

\* handleUpvote up to await updateDoc: no local state is touched
HandleUpvote(s, id) ==
    /\ MainShown(s)
    /\ \E i \in 1..Len(issues[s]) : issues[s][i].id = id
    /\ upvoteOp[s].pc = "idle"
    /\ id \in DOMAIN storeIssues =>
          storeIssues[id].upvotes + UpvotesInFlight(id) < MaxUpvotes
    /\ upvoteOp' = Put(upvoteOp, s, [pc |-> "updateDoc", id |-> id])
    /\ UNCHANGED <<remoteVars, clock, user, isLoading, issues, isSubmitting, error,
                   showForm, userProfile, formError, subscribed,
                   authReady, authOp, fetchOp, submitOp, deleteOps>>

\* updateDoc(issueRef, { upvotes: increment(1) }) applied by the store
\* a read-modify-write from the count the card showed when it was drawn (0)
OverwriteUpvotes(doc) == [doc EXCEPT !.upvotes = 1]

IncrementUpvotes(doc) == [doc EXCEPT !.upvotes = OrZero(doc, "upvotes") + 1]

UpvoteOk(s) ==
    /\ upvoteOp[s].pc = "updateDoc"
    /\ upvoteOp[s].id \in DOMAIN storeIssues
    /\ storeIssues' = [storeIssues EXCEPT
                          ![upvoteOp[s].id] = IncrementUpvotes(storeIssues[upvoteOp[s].id])]
    /\ upvoteAcks' = [upvoteAcks EXCEPT ![upvoteOp[s].id] = @ + 1]
    /\ upvoteOp' = Put(upvoteOp, s, Idle)
    /\ UNCHANGED <<authUser, storeProfiles, nextId, clock, user, isLoading, issues,
                   isSubmitting, error, showForm, userProfile, formError, subscribed, authReady, authOp, fetchOp,
                   submitOp, deleteOps>>

\* a rejection that is shown to the user through the error banner
UpvoteFailSurfaced(s) ==
    /\ upvoteOp[s].pc = "updateDoc"
    /\ upvoteOp' = Put(upvoteOp, s, Idle)
    /\ error' = Put(error, s, MsgSubmit)
    /\ UNCHANGED <<remoteVars, clock, user, isLoading, issues, isSubmitting,
                   showForm, userProfile, formError, subscribed,
                   authReady, authOp, fetchOp, submitOp, deleteOps>>

\* updateDoc rejects: console.error only
UpvoteFail(s) ==
    /\ upvoteOp[s].pc = "updateDoc"
    /\ upvoteOp' = Put(upvoteOp, s, Idle)
    /\ UNCHANGED <<remoteVars, clock, user, isLoading, issues, isSubmitting, error,
                   showForm, userProfile, formError, subscribed,
                   authReady, authOp, fetchOp, submitOp, deleteOps>>

\* ----------------------------------------------------------- specifications
ViewIds(s) == {issues[s][i].id : i \in 1..Len(issues[s])}

\* Session Manager: the entry paths, sign-out, and their rejections
CredSignIn(s) ==
    \/ AuthReady(s)
    \/ \E kind \in {"login", "signup"} : HandleLogin(s, kind)
    \/ \E u \in CredUids : SignInOk(s, u)

GuestSignIn(s) ==
    \/ AuthReady(s)
    \/ HandleGuestLogin(s, FALSE)
    \/ \E u \in AnonUids : SignInOk(s, u)

\* the guest path on a page that supplies a custom token
TokenSignIn(s) ==
    \/ HandleGuestLogin(s, TRUE)
    \/ \E u \in Uids : SignInOk(s, u)

SignOutSteps(s) ==
    \/ HandleLogout(s)
    \/ SignOutOk(s)

AuthFaults(s) ==
    \/ SignInFail(s)
    \/ SignOutFail(s)

\* Profile Ledger: fetchUserProfile
ProfileSteps(s) ==
    \/ FetchGetOk(s)
    \/ FetchSetOk(s)

\* the report form and addIssue; cap bounds the submits started
SubmitSteps(s, cap, texts) ==
    \/ OpenForm(s)
    \/ \E title, description, location \in texts :
          clock <= cap /\ HandleSubmit(s, title, description, location)
    \/ AddDocOk(s)
    \/ SetDocOk(s)

SubmitFaults(s) ==
    \/ AddDocFail(s)
    \/ SetDocFail(s)

DeleteSteps(s) ==
    \/ \E id \in ViewIds(s) : HandleDelete(s, id)
    \/ \E op \in deleteOps[s] : DeleteDocOk(s, op)
    \/ \E op \in deleteOps[s] : UpdateProfileOk(s, op)

DeleteFaults(s) ==
    \/ \E op \in deleteOps[s] : DeleteDocFail(s, op)
    \/ \E op \in deleteOps[s] : UpdateProfileFail(s, op)

UpvoteSteps(s) ==
    \/ \E id \in ViewIds(s) : HandleUpvote(s, id)
    \/ UpvoteOk(s)
    \/ UpvoteFail(s)

\* Submit: one session of the credentialed identity; the form, addIssue with
\* every outcome of its remote calls, the profile load, sign-out, snapshots
NextSubmit ==
    \/ CredSignIn("s1")
    \/ SignOutSteps("s1")
    \/ ProfileSteps("s1")
    \/ FetchFail("s1")
    \/ SubmitSteps("s1", MaxIssues, FieldTexts)
    \/ CloseForm("s1")
    \/ SubmitFaults("s1")
    \/ OnSnapshot("s1")

SpecSubmit == Init /\ [][NextSubmit]_vars

\* Profile Ledger over a reload: submits whose profile update may fail,
\* deletes that succeed, sign-out and a second sign-in
NextReload ==
    \/ CredSignIn("s1")
    \/ SignOutSteps("s1")
    \/ ProfileSteps("s1")
    \/ SubmitSteps("s1", ReloadIssues, FilledTexts)
    \/ SetDocFail("s1")
    \/ OnSnapshot("s1")
    \/ DeleteSteps("s1")

SpecReload == Init /\ [][NextReload]_vars

\* one session that only signs in and submits, up to the Hero threshold
NextHero ==
    \/ CredSignIn("s1")
    \/ ProfileSteps("s1")
    \/ SubmitSteps("s1", HeroAt, FilledTexts)

SpecHero == Init /\ [][NextHero]_vars

\* Delete: one session; snapshots and deletes with every outcome of their
\* remote calls, submits that succeed
NextDelete ==
    \/ CredSignIn("s1")
    \/ ProfileSteps("s1")
    \/ SubmitSteps("s1", MaxIssues, FilledTexts)
    \/ OnSnapshot("s1")
    \/ DeleteSteps("s1")
    \/ DeleteFaults("s1")

SpecDelete == Init /\ [][NextDelete]_vars

\* Upvote: two sessions of two identities upvoting the records one of them
\* reports
NextUpvote ==
    \/ CredSignIn("s1")
    \/ GuestSignIn("s2")
    \/ \E s \in Sessions : ProfileSteps(s)
    \/ SubmitSteps("s1", UpvoteIssues, FilledTexts)
    \/ \E s \in Sessions : OnSnapshot(s)
    \/ \E s \in Sessions : UpvoteSteps(s)

SpecUpvote == Init /\ [][NextUpvote]_vars

\* Session Manager: both entry paths and sign-out with every outcome, the
\* profile load, the feed subscription, submits that succeed
NextSession ==
    \/ CredSignIn("s1")
    \/ GuestSignIn("s1")
    \/ SignOutSteps("s1")
    \/ AuthFaults("s1")
    \/ ProfileSteps("s1")
    \/ FetchFail("s1")
    \/ SubmitSteps("s1", MaxIssues, FilledTexts)
    \/ CloseForm("s1")
    \/ OnSnapshot("s1")

SpecSession == Init /\ [][NextSession]_vars

\* One session reporting, reloading, and losing its identity either through
\* its own sign-out or through the auth collaborator
NextRevoke ==
    \/ CredSignIn("s1")
    \/ SignOutSteps("s1")
    \/ AuthRevoked("s1")
    \/ ProfileSteps("s1")
    \/ SubmitSteps("s1", UpvoteIssues, FilledTexts)
    \/ OnSnapshot("s1")

SpecRevoke == Init /\ [][NextRevoke]_vars

\* One session in which every remote call may be rejected
NextFaults ==
    \/ CredSignIn("s1")
    \/ SignOutSteps("s1")
    \/ AuthFaults("s1")
    \/ ProfileSteps("s1")
    \/ FetchFail("s1")
    \/ SubmitSteps("s1", UpvoteIssues, FilledTexts)
    \/ SubmitFaults("s1")
    \/ OnSnapshot("s1")
    \/ SnapshotFail("s1")
    \/ DeleteSteps("s1")
    \/ DeleteFaults("s1")
    \/ UpvoteSteps("s1")

SpecFaults == Init /\ [][NextFaults]_vars

\* The guest path with and without a custom token, next to a credentialed
\* session that reports. A sign-in call that is awaited is answered: while
\* the call is pending its resolution stays possible, and unless it is
\* rejected first it arrives.
NextGuest ==
    \/ GuestSignIn("s2")
    \/ TokenSignIn("s2")
    \/ SignInFail("s2")
    \/ SignOutSteps("s2")
    \/ ProfileSteps("s2")
    \/ OnSnapshot("s2")
    \/ CredSignIn("s1")
    \/ ProfileSteps("s1")
    \/ SubmitSteps("s1", UpvoteIssues, FilledTexts)

SpecGuest ==
    /\ Init
    /\ [][NextGuest]_vars
    /\ WF_vars(\E u \in Uids : SignInOk("s2", u))

\* ------------------------------------------------ the snapshot listener alone
\* A record as another client may have left it: upvotes / createdAt is a
\* number, or missing (-1 here)
OptKeys == (0 - 1)..MaxKey

AnyDoc(id, up, at) ==
    [f \in {"id", "reporterId"} \cup (IF up < 0 THEN {} ELSE {"upvotes"})
                                \cup (IF at < 0 THEN {} ELSE {"createdAt"}) |->
        CASE f = "id" -> id
          [] f = "reporterId" -> "u2"
          [] f = "upvotes" -> up
          [] OTHER -> at]

\* s1 has just signed in (SignInOk) against a collection of up to MaxLen
\* records of any content
InitSort ==
    /\ \E n \in 0..MaxLen : \E k \in [1..n -> OptKeys \X OptKeys] :
          /\ storeIssues = [i \in 1..n |-> AnyDoc(i, k[i][1], k[i][2])]
          /\ upvoteAcks = [i \in 1..n |-> 0]
          /\ nextId = n + 1
    /\ authUser = [s \in Sessions |-> IF s = "s1" THEN "u1" ELSE None]
    /\ storeProfiles = <<>>
    /\ clock = 1
    /\ user = [s \in Sessions |-> IF s = "s1" THEN "u1" ELSE None]
    /\ isLoading = [s \in Sessions |-> s # "s1"]
    /\ issues = [s \in Sessions |-> <<>>]
    /\ isSubmitting = [s \in Sessions |-> FALSE]
    /\ error = [s \in Sessions |-> None]
    /\ showForm = [s \in Sessions |-> FALSE]
    /\ userProfile = [s \in Sessions |-> ZeroProfile]
    /\ formError = [s \in Sessions |-> ""]
    /\ subscribed = [s \in Sessions |-> s = "s1"]
    /\ authReady = [s \in Sessions |-> s = "s1"]
    /\ authOp = [s \in Sessions |-> Idle]
    /\ fetchOp = [s \in Sessions |-> IF s = "s1" THEN [pc |-> "getDoc", uid |-> "u1"]
                                     ELSE Idle]
    /\ submitOp = [s \in Sessions |-> Idle]
    /\ deleteOps = [s \in Sessions |-> {}]
    /\ upvoteOp = [s \in Sessions |-> Idle]

NextSort == OnSnapshot("s1")

SpecSort == InitSort /\ [][NextSort]_vars

\* ------------------------------------------------------------------ claims
\* view is docs reordered: by upvotes descending, then createdAt descending
\* (a missing key counts as 0), records with equal keys in their order in docs
IsFeedOf(view, docs) ==
    /\ Len(view) = Len(docs)
    /\ \A i \in 1..Len(docs) : \E j \in 1..Len(view) : view[j] = docs[i]
    /\ \A i, j \in 1..Len(view) : i < j =>
          LET a == view[i]
              b == view[j]
              ia == CHOOSE m \in 1..Len(docs) : docs[m] = a
              ib == CHOOSE m \in 1..Len(docs) : docs[m] = b
          IN  \/ OrZero(a, "upvotes") > OrZero(b, "upvotes")
              \/ /\ OrZero(a, "upvotes") = OrZero(b, "upvotes")
                 /\ OrZero(a, "createdAt") > OrZero(b, "createdAt")
              \/ /\ OrZero(a, "upvotes") = OrZero(b, "upvotes")
                 /\ OrZero(a, "createdAt") = OrZero(b, "createdAt")
                 /\ ia < ib

\* C1: the view the snapshot listener publishes is the snapshot's records
\* ordered by upvotes descending, then createdAt descending, missing keys
\* counted as 0, and records with equal keys in their order of arrival.
C1_FeedIsStableSort ==
    [][\A s \in Sessions : OnSnapshot(s) => IsFeedOf(issues'[s], StoreDocs)]_vars

\* a snapshot whose first two records tie (one of them through missing keys)
\* and whose third outranks both has been published
C1_Witness ==
    /\ DOMAIN storeIssues = 1..3
    /\ DOMAIN storeIssues[1] = {"id", "reporterId"}
    /\ OrZero(storeIssues[2], "upvotes") = 0
    /\ "createdAt" \in DOMAIN storeIssues[2]
    /\ OrZero(storeIssues[2], "createdAt") = 0
    /\ OrZero(storeIssues[3], "upvotes") = 1
    /\ issues["s1"] = <<storeIssues[3], storeIssues[1], storeIssues[2]>>

\* a text with nothing but whitespace in it
IsBlank(str) == \A i \in 1..Len(str) : str[i] = " "

\* C2: a submit whose title, description or location is blank issues no remote
\* write (no issue record, no profile update, no call started) and sets the
\* validation error, whatever the other fields hold.
C2_BlankSubmitWritesNothing ==
    [][\A s \in Sessions : \A title, description, location \in FieldTexts :
          (/\ IsBlank(title) \/ IsBlank(description) \/ IsBlank(location)
           /\ HandleSubmit(s, title, description, location))
          => /\ storeIssues' = storeIssues
             /\ storeProfiles' = storeProfiles
             /\ submitOp' = submitOp
             /\ isSubmitting' = isSubmitting
             /\ formError'[s] = MsgForm]_vars

\* the form shows the validation error and nothing was ever sent
C2_Witness ==
    /\ formError["s1"] = MsgForm
    /\ showForm["s1"]
    /\ submitOp["s1"].pc = "idle"
    /\ clock = 1
    /\ storeIssues = <<>>

\* C3: a successful submit by an identity whose persisted aggregate had
\* reportedIssues = 0 leaves it with reportedIssues = 1, points raised by
\* exactly 10 and "First Report" among its badges.
C3_FirstReportAwarded ==
    [][\A s \in Sessions :
          (/\ SetDocOk(s)
           /\ submitOp[s].uid \in DOMAIN storeProfiles
           /\ storeProfiles[submitOp[s].uid].reportedIssues = 0)
          => LET before == storeProfiles[submitOp[s].uid]
                 after == storeProfiles'[submitOp[s].uid]
             IN  /\ after.reportedIssues = 1
                 /\ after.points = before.points + ReportPoints
                 /\ FirstReport \in Range(after.badges)]_vars

\* C4: a successful submit that brings the persisted reportedIssues to exactly
\* 5 leaves both "First Report" and "Neighborhood Hero" among the badges.
C4_HeroAwardedAtFive ==
    [][\A s \in Sessions :
          (/\ SetDocOk(s)
           /\ storeProfiles'[submitOp[s].uid].reportedIssues = HeroAt)
          => {FirstReport, Hero} \subseteq
                 Range(storeProfiles'[submitOp[s].uid].badges)]_vars

\* the place of record id in a view (0 when it is not there)
Position(view, id) ==
    IF \E i \in 1..Len(view) : view[i].id = id
    THEN CHOOSE i \in 1..Len(view) : view[i].id = id
    ELSE 0

\* C5: a delete takes the record out of the local view at once, the store
\* untouched; when the remote delete fails the record is back in the view at
\* the place it had when the delete began, and an error message is set.
C5_DeleteIsOptimisticAndRolledBack ==
    [][\A s \in Sessions :
          /\ \A id \in ViewIds(s) : HandleDelete(s, id) =>
                /\ Position(issues'[s], id) = 0
                /\ issues'[s] = FilterOut(issues[s], id)
                /\ storeIssues' = storeIssues
                /\ \E op \in deleteOps'[s] \ deleteOps[s] :
                      /\ op.id = id
                      /\ op.originalIssues = issues[s]
          /\ \A op \in deleteOps[s] : DeleteDocFail(s, op) =>
                /\ Position(issues'[s], op.id) = Position(op.originalIssues, op.id)
                /\ Position(issues'[s], op.id) > 0
                /\ issues'[s] = op.originalIssues
                /\ error'[s] = MsgDelete]_vars

\* both records ever written are in the store, the view shows them again in
\* order, and the delete's error is up: a remote delete has failed
C5_Witness ==
    /\ nextId = 3
    /\ DOMAIN storeIssues = {1, 2}
    /\ ViewIds("s1") = {1, 2}
    /\ deleteOps["s1"] = {}
    /\ error["s1"] = MsgDelete

\* C6: the stored counter of a record is its initial value (0) plus the number
\* of upvote calls the store has resolved, under every interleaving of the
\* callers.
C6_UpvotesAddUp ==
    \A id \in DOMAIN storeIssues : storeIssues[id].upvotes = upvoteAcks[id]

\* two callers' upvotes of one record, both issued before either resolved
\* (each view still shows 0), have both resolved
C6_Witness ==
    /\ 1 \in DOMAIN storeIssues
    /\ upvoteAcks[1] = 2
    /\ storeIssues[1].upvotes = 2
    /\ \A s \in Sessions :
          /\ upvoteOp[s].pc = "idle"
          /\ Len(issues[s]) = 1
          /\ issues[s][1].upvotes = 0

\* C7: sign-out clears the identity, the view and the local profile whether
\* the remote sign-out succeeds or fails.
C7_SignOutAlwaysClears ==
    [][\A s \in Sessions :
          (authOp[s].pc = "signOut" /\ authOp'[s].pc = "idle")
          => /\ user'[s] = None
             /\ issues'[s] = <<>>
             /\ userProfile'[s] = ZeroProfile]_vars

\* C8: when the remote delete succeeded and the profile decrement fails,
\* nothing is rolled back: the record stays out of the store and out of the
\* local view.
C8_DecrementFailureRestoresNothing ==
    [][\A s \in Sessions : \A op \in deleteOps[s] :
          UpdateProfileFail(s, op)
          => /\ storeIssues' = storeIssues
             /\ op.id \notin DOMAIN storeIssues'
             /\ Position(issues'[s], op.id) = 0]_vars

\* C9: when the issue write succeeded and the profile update fails, the record
\* written stays in the store, the persisted points and reportedIssues are
\* unchanged and the submission-failure message is set.
C9_SubmitIsNotRolledBack ==
    [][\A s \in Sessions :
          SetDocFail(s)
          => /\ storeIssues' = storeIssues
             /\ \E id \in DOMAIN storeIssues' :
                   /\ storeIssues'[id].reporterId = submitOp[s].uid
                   /\ storeIssues'[id].createdAt = submitOp[s].createdAt
             /\ storeProfiles' = storeProfiles
             /\ error'[s] = MsgSubmit
             /\ ~isSubmitting'[s]]_vars

\* the only submit started wrote its record, the profile holds no award, and
\* the failure message is up
C9_Witness ==
    /\ clock = 2
    /\ DOMAIN storeIssues = {1}
    /\ "u1" \in DOMAIN storeProfiles
    /\ storeProfiles["u1"].points = 0
    /\ storeProfiles["u1"].reportedIssues = 0
    /\ submitOp["s1"].pc = "idle"
    /\ error["s1"] = MsgSubmit

\* C10: no step of an upvote changes the local view; a failed upvote leaves
\* the stored counters, the view and the error state as they were.
C10_UpvoteTouchesNoLocalState ==
    [][\A s \in Sessions :
          /\ \A id \in ViewIds(s) : HandleUpvote(s, id) =>
                issues' = issues /\ error' = error /\ storeIssues' = storeIssues
          /\ UpvoteOk(s) => issues' = issues /\ error' = error
          /\ UpvoteFail(s) =>
                issues' = issues /\ error' = error /\ storeIssues' = storeIssues]_vars

\* an upvote has resolved and the view still shows the old count
C10_Witness ==
    /\ 1 \in DOMAIN storeIssues
    /\ storeIssues[1].upvotes = 1
    /\ upvoteOp["s1"].pc = "idle"
    /\ upvoteOp["s2"].pc = "idle"
    /\ Len(issues["s1"]) = 1
    /\ issues["s1"][1].upvotes = 0

\* C11: on each entry path (login, signup, guest) a rejected authentication
\* call sets a non-empty error message and leaves the identity none; no feed
\* subscription is started and no profile document is read or created.
C11_FailedSignInLeavesNothing ==
    [][\A s \in Sessions :
          SignInFail(s)
          => /\ error'[s] \notin {None, ""}
             /\ user'[s] = None
             /\ authUser'[s] = None
             /\ ~subscribed'[s]
             /\ fetchOp' = fetchOp
             /\ storeProfiles' = storeProfiles]_vars

\* the guest path has failed before anybody ever signed in: the login screen
\* is up with the guest message, nothing subscribed, no profile document
C11_Witness ==
    /\ LoginScreenShown("s1")
    /\ error["s1"] = MsgGuest
    /\ authOp["s1"].pc = "idle"
    /\ ~subscribed["s1"]
    /\ fetchOp["s1"].pc = "idle"
    /\ storeProfiles = <<>>

\* C12: a guest login on a page without a custom token calls anonymous
\* sign-in, never the token redemption; the pending call is answered, and
\* when it succeeds the session has an anonymous identity and an attached
\* feed listener.
C12_GuestBecomesAnonymousAndSubscribed ==
    /\ [][\A s \in Sessions :
             /\ HandleGuestLogin(s, FALSE) =>
                   authOp'[s].call = "signInAnonymously"
             /\ \A u \in Uids :
                   (authOp[s].pc = "signIn" /\ authOp[s].call = "signInAnonymously"
                      /\ SignInOk(s, u))
                   => u \in AnonUids /\ user'[s] = u /\ subscribed'[s]]_vars
    /\ (authOp["s2"].pc = "signIn" /\ authOp["s2"].call = "signInAnonymously")
          ~> \/ user["s2"] \in AnonUids /\ subscribed["s2"]
             \/ LoginScreenShown("s2") /\ error["s2"] = MsgGuest

\* the guest is in with an anonymous identity, the feed of the reporting
\* session's record delivered to it
C12_Witness ==
    /\ user["s2"] \in AnonUids
    /\ subscribed["s2"]
    /\ authOp["s2"].pc = "idle"
    /\ error["s2"] = None
    /\ Len(issues["s2"]) = 1

\* C13: whenever the identity of a session changes to none, by its own
\* sign-out or otherwise, the feed listener is detached and the local profile
\* is back at the zero-state (points 0, reportedIssues 0, no badges).
C13_UnauthenticatedResetsProfile ==
    [][\A s \in Sessions :
          (user[s] # None /\ user'[s] = None)
          => /\ ~subscribed'[s]
             /\ OrZero(userProfile'[s], "points") = 0
             /\ OrZero(userProfile'[s], "reportedIssues") = 0
             /\ userProfile'[s].badges = <<>>]_vars

\* C14: a profile load that finds the identity's document makes it the local
\* profile and writes nothing; one that finds none leaves the local profile
\* alone until the zero-state document (points 0, reportedIssues 0, no
\* badges) is stored under the identity's key, and that document then
\* becomes the local profile.
C14_ProfileLoad ==
    [][\A s \in Sessions :
          /\ FetchGetOk(s) =>
                /\ storeProfiles' = storeProfiles
                /\ IF fetchOp[s].uid \in DOMAIN storeProfiles
                   THEN userProfile'[s] = storeProfiles[fetchOp[s].uid]
                   ELSE userProfile'[s] = userProfile[s]
          /\ FetchSetOk(s) =>
                /\ fetchOp[s].uid \in DOMAIN storeProfiles'
                /\ storeProfiles'[fetchOp[s].uid].points = 0
                /\ storeProfiles'[fetchOp[s].uid].reportedIssues = 0
                /\ storeProfiles'[fetchOp[s].uid].badges = <<>>
                /\ userProfile'[s] = storeProfiles'[fetchOp[s].uid]]_vars

\* the document a first load created has since been awarded a report and
\* has been read back by a later load
C14_Witness ==
    /\ "u1" \in DOMAIN storeProfiles
    /\ "name" \in DOMAIN storeProfiles["u1"]
    /\ storeProfiles["u1"].points = ReportPoints
    /\ userProfile["s1"] = storeProfiles["u1"]
    /\ fetchOp["s1"].pc = "idle"

\* C15: the persisted badge set of an identity only grows under submits and
\* deletes: no profile update of a submit removes a badge that was stored,
\* and the profile update of a delete leaves the badges as they are.
C15_BadgesOnlyGrow ==
    [][\A s \in Sessions :
          /\ (SetDocOk(s) /\ submitOp[s].uid \in DOMAIN storeProfiles)
                => Range(storeProfiles[submitOp[s].uid].badges)
                      \subseteq Range(storeProfiles'[submitOp[s].uid].badges)
          /\ \A op \in deleteOps[s] : UpdateProfileOk(s, op)
                => storeProfiles'[op.uid].badges = storeProfiles[op.uid].badges]_vars

\* C16: a session has at most one submit outstanding: isSubmitting is true
\* exactly while a submit awaits a remote call, a submit starts only while it
\* is false (the control is disabled otherwise) and never over a pending one,
\* and every outcome (success, failed issue write, failed profile update)
\* leaves it false.
C16_OneSubmitAtATime ==
    /\ [](\A s \in Sessions : isSubmitting[s] <=> submitOp[s].pc # "idle")
    /\ [][\A s \in Sessions :
             /\ (submitOp'[s] # submitOp[s] /\ submitOp'[s].pc = "addDoc")
                   => ~isSubmitting[s] /\ submitOp[s].pc = "idle" /\ isSubmitting'[s]
             /\ (SetDocOk(s) \/ AddDocFail(s) \/ SetDocFail(s))
                   => ~isSubmitting'[s] /\ submitOp'[s].pc = "idle"]_vars

\* a second submit awaits its profile update after the first one failed
C16_Witness ==
    /\ clock = 3
    /\ nextId = 2
    /\ isSubmitting["s1"]
    /\ submitOp["s1"].pc = "setDoc"

\* C17: every rejection of a remote call issued by a session is caught where
\* the call was made and leaves an error message for the user; only the
\* rejection of an upvote is logged instead.
C17_EveryFailureIsCaught ==
    [][\A s \in Sessions :
          (\/ SignInFail(s)
           \/ SignOutFail(s)
           \/ FetchFail(s)
           \/ AddDocFail(s)
           \/ SetDocFail(s)
           \/ SnapshotFail(s)
           \/ \E op \in deleteOps[s] : DeleteDocFail(s, op) \/ UpdateProfileFail(s, op))
          => error'[s] \notin {None, ""}]_vars

\* C18: each snapshot the listener handles replaces the view whole: right
\* after it the view holds exactly the records of the snapshot, each once and
\* as stored, whatever the view held before and whatever deletes are pending.
C18_SnapshotReplacesView ==
    [][\A s \in Sessions :
          OnSnapshot(s)
          => /\ Len(issues'[s]) = Cardinality(DOMAIN storeIssues)
             /\ \A id \in DOMAIN storeIssues :
                   \E i \in 1..Len(issues'[s]) : issues'[s][i] = storeIssues[id]
             /\ issues'[s] = SortIssues(StoreDocs)]_vars

\* a record whose delete is still awaiting the store is in the view again: a
\* snapshot taken before the delete landed has replaced the filtered view
C18_Witness ==
    \E op \in deleteOps["s1"] :
        /\ op.pc = "deleteDoc"
        /\ op.id \in ViewIds("s1")
        /\ Len(issues["s1"]) = 2

\* C19: the first profile load loses no award: when the zero-state write of
\* a load lands on a document that a submit created since the load's
\* existence check, the stored points and reportedIssues keep the award.
C19_InitialisationKeepsAward ==
    [][\A s \in Sessions :
          (FetchSetOk(s) /\ fetchOp[s].uid \in DOMAIN storeProfiles)
          => /\ storeProfiles'[fetchOp[s].uid].points
                   = storeProfiles[fetchOp[s].uid].points
             /\ storeProfiles'[fetchOp[s].uid].reportedIssues
                   = storeProfiles[fetchOp[s].uid].reportedIssues]_vars

\* C20: the stored points and reportedIssues of every identity are never
\* negative, also when a profile update fails after its issue write.
C20_CountersNonNegative ==
    \A u \in DOMAIN storeProfiles :
        /\ OrZero(storeProfiles[u], "points") >= 0
        /\ OrZero(storeProfiles[u], "reportedIssues") >= 0

\* C21: the rollback of a failed delete puts no older state over a newer
\* one: when, since the delete began, a snapshot has replaced the view (it no
\* longer is what the delete left) or the user has signed out, the view after
\* the failure of the remote delete is the view before it: the content of
\* that snapshot, respectively empty.
C21_RollbackKeepsNewerState ==
    [][\A s \in Sessions : \A op \in deleteOps[s] :
          (/\ DeleteDocFail(s, op)
           /\ \/ user[s] = None
              \/ issues[s] # FilterOut(op.originalIssues, op.id))
          => /\ issues'[s] = issues[s]
             /\ user[s] = None => issues'[s] = <<>>]_vars

====
